---- MODULE Spec2Model ----
(***************************************************************************)
(* Tesla casting lookup: the Data Service (FastAPI handlers lookup_casting, *)
(* get_castings, search_castings over the SQLite table "castings") and the  *)
(* Presentation Layer (Flask routes index, browse, search, export) that     *)
(* calls it over HTTP.                                                      *)
(*                                                                          *)
(* Text values are sequences of one-character strings, so that ordering,   *)
(* trimming, LIKE matching and URL splitting are computed character by     *)
(* character as SQLite, Python and the HTTP stack compute them.            *)
(***************************************************************************)
EXTENDS Integers, Sequences, FiniteSets, TLC

VARIABLES store, api, apiResp, openConns, web, webResp, loader

vars == <<store, api, apiResp, openConns, web, webResp, loader>>

(***************************************************************************)
(* Bounds of the model.                                                     *)
(***************************************************************************)
\* Largest number of rows of a store drawn from RecordPool.
MaxRecords == 3
\* Largest page number a request asks for.
MaxPage == 4
\* Largest number of rows of the numbered store of SpecPages.
MaxTotal == 55
\* Largest number of data rows of the loader's source file.
MaxCsvRows == 2
\* Largest number of runs of the loader.
MaxRuns == 2
\* Largest page number asked for while the loader runs.
MaxLoadPage == 2

(***************************************************************************)
(* Program constants.                                                       *)
(***************************************************************************)
\* Query(1, ge=1)
MinPage == 1
\* Query(50, ge=1, le=100)
MinLimit == 1
MaxLimit == 100
\* Query(..., min_length=1)
MinQLen == 1
\* browse: limit = 20
BrowseLimit == 20

(***************************************************************************)
(* Text.                                                                    *)
(***************************************************************************)
\* The byte value of each character the model uses (ASCII).
Code ==
    " " :> 32 @@ "#" :> 35 @@ "%" :> 37 @@ "&" :> 38 @@ "/" :> 47 @@
    "0" :> 48 @@ "1" :> 49 @@ "2" :> 50 @@ "3" :> 51 @@ "4" :> 52 @@
    "5" :> 53 @@ "6" :> 54 @@ "7" :> 55 @@ "8" :> 56 @@ "9" :> 57 @@
    "?" :> 63 @@ "A" :> 65 @@ "B" :> 66 @@ "X" :> 88 @@ "_" :> 95 @@
    "a" :> 97 @@ "b" :> 98 @@ "x" :> 120

Chars == DOMAIN Code

\* SQL NULL / Python None for a text value: a value that is no text.
Null == <<"NULL">>

\* SQLite's LIKE folds the case of ASCII letters only.
Lower(c) ==
    IF Code[c] >= 65 /\ Code[c] <= 90
    THEN CHOOSE d \in Chars : Code[d] = Code[c] + 32
    ELSE c

\* BINARY collation (memcmp): a < b.
RECURSIVE LessText(_, _)
LessText(a, b) ==
    IF b = <<>> THEN FALSE
    ELSE IF a = <<>> THEN TRUE
    ELSE IF Head(a) = Head(b) THEN LessText(Tail(a), Tail(b))
    ELSE Code[Head(a)] < Code[Head(b)]

\* SQLite's LIKE without ESCAPE: % matches any run of characters, _ matches
\* exactly one character, any other character matches itself up to ASCII case.
RECURSIVE LikeMatch(_, _)
LikeMatch(pat, s) ==
    IF pat = <<>> THEN s = <<>>
    ELSE IF Head(pat) = "%"
         THEN LikeMatch(Tail(pat), s) \/ (s # <<>> /\ LikeMatch(pat, Tail(s)))
    ELSE /\ s # <<>>
         /\ (Head(pat) = "_" \/ Lower(Head(pat)) = Lower(Head(s)))
         /\ LikeMatch(Tail(pat), Tail(s))

\* column LIKE ?: NULL LIKE pattern is NULL, which WHERE treats as false.
Like(field, pat) == field # Null /\ LikeMatch(pat, field)

LowerText(s) == [i \in 1..Len(s) |-> Lower(s[i])]

\* str.strip(): surrounding whitespace removed.
RECURSIVE LStrip(_)
LStrip(s) == IF s # <<>> /\ Head(s) = " " THEN LStrip(Tail(s)) ELSE s

RECURSIVE RStrip(_)
RStrip(s) ==
    IF s # <<>> /\ s[Len(s)] = " " THEN RStrip(SubSeq(s, 1, Len(s) - 1)) ELSE s

Strip(s) == RStrip(LStrip(s))

\* The part of s before the first occurrence of character c (all of s if none).
RECURSIVE Before(_, _)
Before(s, c) ==
    IF s = <<>> \/ Head(s) = c THEN <<>> ELSE <<Head(s)>> \o Before(Tail(s), c)

HasChar(s, c) == \E i \in 1..Len(s) : s[i] = c

(***************************************************************************)
(* The store: the rows of table castings.                                   *)
(***************************************************************************)
Rec(c, y, i, l, h, m, k) ==
    [casting |-> c, years |-> y, cid |-> i, low_power |-> l,
     high_power |-> h, main_caps |-> m, comments |-> k]

\* Rows a store may hold.  Two rows share the casting "a": a store holds at
\* most one of them (casting is the PRIMARY KEY).  comments may be NULL.
RecordPool ==
    { Rec(<<"a">>, <<"1", "2">>, <<"A", "b">>, <<"x">>, <<"1">>, <<"2">>, <<>>),
      Rec(<<"a">>, <<"1", "4">>, <<"b">>, <<"1">>, <<"x">>, <<"2">>, <<"%">>),
      Rec(<<"A">>, <<"1", "3">>, <<"b">>, <<"X">>, <<"1">>, <<"2">>, Null),
      Rec(<<"a", "b">>, <<"1", "2">>, <<"x">>, <<"1">>, <<"1">>, <<"2">>,
          <<"a", "_", "b">>),
      Rec(<<"B", "1">>, <<"0", "9">>, <<"3">>, <<"1">>, <<"1">>, <<"x">>,
          <<"a", " ", "B">>) }

UniqueCasting(s) == \A r1, r2 \in s : r1.casting = r2.casting => r1 = r2

Stores ==
    {s \in SUBSET RecordPool : Cardinality(s) <= MaxRecords /\ UniqueCasting(s)}

\* The numbered store of SpecPages: rows "01", "02", ... in key order.
Digit(d) == CHOOSE c \in Chars : Code[c] = 48 + d

KeyOfRank(i) == <<Digit(i \div 10), Digit(i % 10)>>

NumberedStore(n) ==
    {Rec(KeyOfRank(i), <<"1", "2">>, <<"A">>, <<"1">>, <<"2">>, <<"3">>, <<>>) :
        i \in 1..n}

(***************************************************************************)
(* The SQL statements.                                                      *)
(***************************************************************************)
\* SELECT ... FROM castings WHERE casting = ?  then fetchone(): the row, or
\* no row (the empty sequence stands for None).
SelectByCastingMutant(s, k) ==
    LET m == {r \in s : LowerText(r.casting) = LowerText(k)}
    IN  IF m = {} THEN <<>> ELSE <<CHOOSE r \in m : TRUE>>

SelectByCasting(s, k) ==
    LET m == {r \in s : r.casting = k}
    IN  IF m = {} THEN <<>> ELSE <<CHOOSE r \in m : TRUE>>

\* SELECT COUNT(*) FROM castings
CountQuery(s) == Cardinality(s)

\* ORDER BY casting
RECURSIVE OrderByCasting(_)
OrderByCasting(s) ==
    IF s = {} THEN <<>>
    ELSE LET r == CHOOSE x \in s : \A y \in s : ~LessText(y.casting, x.casting)
         IN  <<r>> \o OrderByCasting(s \ {r})

\* LIMIT ? OFFSET ? bound to (offset, limit) instead of (limit, offset).
LimitOffsetMutant(rows, limit, offset) ==
    IF limit >= Len(rows) THEN <<>>
    ELSE SubSeq(rows, limit + 1,
                IF limit + offset < Len(rows) THEN limit + offset ELSE Len(rows))

\* LIMIT ? OFFSET ?
LimitOffset(rows, limit, offset) ==
    IF offset >= Len(rows) THEN <<>>
    ELSE SubSeq(rows, offset + 1,
                IF offset + limit < Len(rows) THEN offset + limit ELSE Len(rows))

Project3(r) == [casting |-> r.casting, years |-> r.years, cid |-> r.cid]

\* offset = (page - 1) * limit
OffsetMutant(page, limit) == page * limit

Offset(page, limit) == (page - 1) * limit

\* SELECT casting, years, cid FROM castings ORDER BY casting LIMIT ? OFFSET ?
PageQuery(s, limit, offset) ==
    LET rows == LimitOffset(OrderByCasting(s), limit, offset)
    IN  [i \in 1..Len(rows) |-> Project3(rows[i])]

\* (total + limit - 1) // limit
TotalPagesMutant(total, limit) == total \div limit

TotalPages(total, limit) == (total + limit - 1) \div limit

\* query = f"%{q}%"
LikePattern(q) == <<"%">> \o q \o <<"%">>

\* SELECT ... WHERE casting LIKE ? OR cid LIKE ? OR years LIKE ? OR
\* comments LIKE ? ORDER BY casting
SearchQuery(s, q) ==
    LET pat == LikePattern(q)
    IN  OrderByCasting({r \in s : \/ Like(r.casting, pat)
                                  \/ Like(r.cid, pat)
                                  \/ Like(r.years, pat)
                                  \/ Like(r.comments, pat)})

(***************************************************************************)
(* The Data Service: one request in flight.                                 *)
(***************************************************************************)
\* api.conn: the local variable conn: "unbound" until sqlite3.connect has
\* returned, then "open", then "closed".  api.row is fetchone()'s result.
\* api.pending is what the try statement has still to deliver once the
\* finally clause has run: nothing, the return value, or the HTTPException
\* raised by the except clause.  api.connects and api.queries count the
\* connection attempts and the statements executed for the request, and
\* api.dbError records that sqlite3 raised sqlite3.Error during the request.
ApiIdle ==
    [op |-> "none", pc |-> "idle", caller |-> "none", arg |-> <<>>,
     page |-> 0, limit |-> 0, conn |-> "unbound", row |-> <<>>, total |-> 0,
     pending |-> "none", dbError |-> FALSE, connects |-> 0, queries |-> 0]

NoBody == <<>>

NoResp == [status |-> 0, detail |-> "", escaped |-> "none", body |-> NoBody]

ErrResp(code, text) ==
    [status |-> code, detail |-> text, escaped |-> "none", body |-> NoBody]

OkResp(b) == [status |-> 200, detail |-> "", escaped |-> "none", body |-> b]

\* An exception that is no HTTPException leaves the handler: the framework
\* answers 500 "Internal Server Error".
EscapedResp(exc) ==
    [status |-> 500, detail |-> "Internal Server Error", escaped |-> exc,
     body |-> NoBody]

\* page: int = Query(1, ge=1), limit: int = Query(50, ge=1, le=100)
ValidCastingsMutant(page, limit) == page >= MinPage /\ limit >= MinLimit

ValidCastings(page, limit) ==
    page >= MinPage /\ limit >= MinLimit /\ limit <= MaxLimit

\* q: str = Query(..., min_length=1); a missing q is Null.
ValidSearch(q) == q # Null /\ Len(q) >= MinQLen

ValidRequest(op, arg, page, limit) ==
    IF op = "castings" THEN ValidCastings(page, limit)
    ELSE IF op = "search" THEN ValidSearch(arg)
    ELSE TRUE

\* The framework validates the declared parameters before it calls the
\* handler: an invalid request is answered 422 and the handler never runs.
Dispatch(caller, op, arg, page, limit) ==
    IF ValidRequest(op, arg, page, limit)
    THEN /\ api' = [ApiIdle EXCEPT !.op = op, !.pc = "connect",
                                   !.caller = caller, !.arg = arg,
                                   !.page = page, !.limit = limit]
         /\ apiResp' = NoResp
    ELSE /\ api' = [ApiIdle EXCEPT !.op = op, !.pc = "done",
                                   !.caller = caller, !.arg = arg,
                                   !.page = page, !.limit = limit]
         /\ apiResp' = ErrResp(422, "validation error")

\* The first statement after conn.cursor().
FirstQuery(op) ==
    IF op = "lookup" THEN "execute"
    ELSE IF op = "castings" THEN "count"
    ELSE "search"

\* conn = sqlite3.connect('castings.db'): returns a connection, or raises
\* sqlite3.Error (the file cannot be opened) and leaves conn unbound.
Connect ==
    /\ api.pc = "connect"
    /\ \/ /\ api' = [api EXCEPT !.conn = "open", !.pc = FirstQuery(api.op),
                                !.connects = @ + 1]
          /\ openConns' = openConns + 1
       \/ /\ api' = [api EXCEPT !.pc = "except", !.connects = @ + 1,
                                !.dbError = TRUE]
          /\ UNCHANGED openConns
    /\ UNCHANGED <<loader, store, apiResp, web, webResp>>

LookupExecuteMutant ==
    /\ api.pc = "execute"
    /\ api' = [api EXCEPT !.row = SelectByCasting(store, api.arg),
                          !.queries = @ + 1, !.pc = "finally"]
    /\ store' = {r \in store : r.casting # api.arg}
    /\ UNCHANGED <<loader, apiResp, openConns, web, webResp>>

\* lookup_casting: cursor.execute(SELECT ... WHERE casting = ?); fetchone().
LookupExecute ==
    /\ api.pc = "execute"
    /\ \/ api' = [api EXCEPT !.row = SelectByCasting(store, api.arg),
                             !.queries = @ + 1, !.pc = "finally"]
       \/ api' = [api EXCEPT !.queries = @ + 1, !.pc = "except",
                             !.dbError = TRUE]
    /\ UNCHANGED <<loader, store, apiResp, openConns, web, webResp>>

\* get_castings: SELECT COUNT(*); total = cursor.fetchone()[0].
CountExecute ==
    /\ api.pc = "count"
    /\ \/ api' = [api EXCEPT !.total = CountQuery(store),
                             !.queries = @ + 1, !.pc = "page"]
       \/ api' = [api EXCEPT !.queries = @ + 1, !.pc = "except",
                             !.dbError = TRUE]
    /\ UNCHANGED <<loader, store, apiResp, openConns, web, webResp>>

\* The dictionary get_castings returns.
CastingsBody(rows, total, page, limit) ==
    [castings |-> rows, total |-> total, page |-> page, limit |-> limit,
     total_pages |-> TotalPages(total, limit)]

\* get_castings: the page query; the return statement is reached inside the
\* try, so its value waits for the finally clause.
PageExecute ==
    /\ api.pc = "page"
    /\ \/ /\ api' = [api EXCEPT !.queries = @ + 1, !.pending = "return",
                                !.pc = "finally"]
          /\ apiResp' =
               OkResp(CastingsBody(
                   PageQuery(store, api.limit, Offset(api.page, api.limit)),
                   api.total, api.page, api.limit))
       \/ /\ api' = [api EXCEPT !.queries = @ + 1, !.pc = "except",
                                !.dbError = TRUE]
          /\ UNCHANGED apiResp
    /\ UNCHANGED <<loader, store, openConns, web, webResp>>

\* The dictionary search_castings returns.
SearchBody(rows, q) == [results |-> rows, query |-> q, count |-> Len(rows)]

\* search_castings: the LIKE query and the return inside the try.
SearchExecute ==
    /\ api.pc = "search"
    /\ \/ /\ api' = [api EXCEPT !.queries = @ + 1, !.pending = "return",
                                !.pc = "finally"]
          /\ apiResp' = OkResp(SearchBody(SearchQuery(store, api.arg), api.arg))
       \/ /\ api' = [api EXCEPT !.queries = @ + 1, !.pc = "except",
                                !.dbError = TRUE]
          /\ UNCHANGED apiResp
    /\ UNCHANGED <<loader, store, openConns, web, webResp>>

\* except sqlite3.Error as e: raise HTTPException(500, "Database error: ...")
ExceptClause ==
    /\ api.pc = "except"
    /\ api' = [api EXCEPT !.pending = "HTTPException", !.pc = "finally"]
    /\ UNCHANGED <<loader, store, apiResp, openConns, web, webResp>>

\* The response once the try statement is left normally or by HTTPException.
\* lookup_casting goes on after the try: if row ... else 404.
AfterTry(a, resp) ==
    IF a.pending = "HTTPException" THEN ErrResp(500, "Database error")
    ELSE IF a.pending = "return" THEN resp
    ELSE IF a.row # <<>> THEN OkResp(a.row[1])
    ELSE ErrResp(404, "Casting not found")

\* finally: conn.close().  With conn unbound (connect raised) the name
\* lookup raises UnboundLocalError, which replaces the pending HTTPException.
FinallyClause ==
    /\ api.pc = "finally"
    /\ IF api.conn = "unbound"
       THEN /\ api' = [api EXCEPT !.pc = "done", !.pending = "UnboundLocalError"]
            /\ apiResp' = EscapedResp("UnboundLocalError")
            /\ UNCHANGED openConns
       ELSE /\ api' = [api EXCEPT !.pc = "done", !.conn = "closed"]
            /\ apiResp' = AfterTry(api, apiResp)
            /\ openConns' = openConns - 1
    /\ UNCHANGED <<loader, store, web, webResp>>

(***************************************************************************)
(* Requests made to the Data Service directly.                              *)
(***************************************************************************)
LookupInputs ==
    {<<"a">>, <<"A">>, <<"a", "b">>, <<"B", "1">>, <<"b">>, <<"a", " ">>}

PageInputs == 0..MaxPage

LimitInputs == {MinLimit - 1, MinLimit, 2, BrowseLimit, MaxLimit, MaxLimit + 1}

QInputs ==
    {Null, <<>>, <<"a">>, <<"B">>, <<"x">>, <<"1", "2">>, <<"9", "9">>,
     <<"_">>, <<"%">>, <<"a", "_", "b">>, <<"a", " ", "b">>}

Quiet == api.pc \in {"idle", "done"} /\ web.pc \in {"idle", "done"}

\* web.calls counts the requests.get calls of the request; web.got is how
\* the last call ended: with a response, or with RequestException.
\* web.copy names the copy of the search route that serves the request: the
\* repository holds two, web_app.py ("root") and src/web_app.py ("src"),
\* which differ in what they render; the other routes are the same in both.
WebIdle ==
    [flow |-> "none", pc |-> "idle", method |-> "GET", input |-> Null,
     sent |-> <<>>, page |-> 0, calls |-> 0, got |-> "none", copy |-> "root"]

NoWebResp ==
    [status |-> 0, template |-> "", error |-> "", data |-> NoBody,
     query |-> Null, filename |-> <<>>, escaped |-> "none"]

ClientLookup ==
    /\ Quiet
    /\ \E k \in LookupInputs : Dispatch("client", "lookup", k, 0, 0)
    /\ web' = WebIdle
    /\ webResp' = NoWebResp
    /\ UNCHANGED <<loader, store, openConns>>

ClientCastings ==
    /\ Quiet
    /\ \E page \in PageInputs, limit \in LimitInputs :
          Dispatch("client", "castings", <<>>, page, limit)
    /\ web' = WebIdle
    /\ webResp' = NoWebResp
    /\ UNCHANGED <<loader, store, openConns>>

ClientSearch ==
    /\ Quiet
    /\ \E q \in QInputs : Dispatch("client", "search", q, 0, 0)
    /\ web' = WebIdle
    /\ webResp' = NoWebResp
    /\ UNCHANGED <<loader, store, openConns>>

(***************************************************************************)
(* The URL between the two layers.                                          *)
(***************************************************************************)
IsHex(c) ==
    \/ Code[c] >= 48 /\ Code[c] <= 57
    \/ Code[c] >= 65 /\ Code[c] <= 70
    \/ Code[c] >= 97 /\ Code[c] <= 102

HexVal(c) ==
    IF Code[c] <= 57 THEN Code[c] - 48
    ELSE IF Code[c] <= 70 THEN Code[c] - 55
    ELSE Code[c] - 87

\* Percent-decoding by the server; an escape of a character outside Chars is
\* left as it is.
RECURSIVE PercentDecode(_)
PercentDecode(s) ==
    IF s = <<>> THEN <<>>
    ELSE IF /\ Len(s) >= 3
            /\ s[1] = "%"
            /\ IsHex(s[2])
            /\ IsHex(s[3])
            /\ \E c \in Chars : Code[c] = 16 * HexVal(s[2]) + HexVal(s[3])
         THEN <<CHOOSE c \in Chars : Code[c] = 16 * HexVal(s[2]) + HexVal(s[3])>>
              \o PercentDecode(SubSeq(s, 4, Len(s)))
    ELSE <<Head(s)>> \o PercentDecode(Tail(s))

\* f'http://localhost:8000/lookup/{text}': the client cuts the URL's path at
\* the first "?" or "#"; the server decodes the path.
WirePath(text) == PercentDecode(Before(Before(text, "#"), "?"))

\* @app.get("/lookup/{casting}"): the parameter is a non-empty segment
\* without "/"; any other path matches no route.
Routed(path) == path # <<>> /\ ~HasChar(path, "/")

\* f'http://localhost:8000/search?q={text}': the fragment is cut at "#", the
\* query string is split at "&", the value is decoded.
WireQ(text) == PercentDecode(Before(Before(text, "#"), "&"))

(***************************************************************************)
(* The Presentation Layer: one request in flight.                           *)
(***************************************************************************)
\* Submitted form values; Null is a field that is missing from the form.
FormCastings ==
    {Null, <<>>, <<" ">>, <<" ", " ">>, <<"a">>, <<" ", "a", " ">>, <<"b">>,
     <<"a", "b">>, <<"a", "/", "b">>, <<"a", "?", "b">>, <<"%", "4", "1">>}

FormQueries ==
    {Null, <<>>, <<"a">>, <<"x">>, <<"9", "9">>, <<"_">>, <<"a", "&", "b">>,
     <<"#">>}

\* /export/<casting>: a non-empty path segment.
ExportCastings == {<<"a">>, <<"A">>, <<"b">>, <<"a", "b">>, <<"a", "?", "b">>}

\* Python's truth value of a form field: None and '' are false.
Truthy(text) == text # Null /\ text # <<>>

\* render_template(template, error=..., data/castings/results=..., query=...)
Page(template, error, data, query) ==
    [status |-> 200, template |-> template, error |-> error, data |-> data,
     query |-> query, filename |-> <<>>, escaped |-> "none"]

\* return text, status
PlainText(code, text) ==
    [status |-> code, template |-> "text", error |-> text, data |-> NoBody,
     query |-> Null, filename |-> <<>>, escaped |-> "none"]

\* make_response(jsonify(data)) with the Content-Disposition header.
Attachment(casting, data) ==
    [status |-> 200, template |-> "attachment", error |-> "", data |-> data,
     query |-> Null,
     filename |-> <<"tesla_casting_">> \o casting \o <<".json">>,
     escaped |-> "none"]

\* An exception no except clause of the route catches: Flask answers 500.
Unhandled(exc) ==
    [status |-> 500, template |-> "text", error |-> "Internal Server Error",
     data |-> NoBody, query |-> Null, filename |-> <<>>, escaped |-> exc]

\* index: error_data.get('detail', ...) when the body is JSON, else
\* 'API Error: <status>'.
ApiErrorText(r) == IF r.escaped # "none" THEN "API Error" ELSE r.detail

\* export: what the route returns for the Data Service's response r.
ExportOnResponse(w, r) ==
    IF r.status = 200 THEN Attachment(w.input, r.body)
    ELSE PlainText(404, "Error: Casting not found")

\* search of web_app.py: render_template('search.html', query=query, **data)
\* where data holds the key 'query' too, so the call raises TypeError.
SearchOnResponseRoot(w, r) ==
    IF r.status = 200 THEN Unhandled("TypeError")
    ELSE Page("search.html", "API Error", NoBody, w.input)

\* search of src/web_app.py: render_template('search.html', **data).
SearchOnResponseSrc(w, r) ==
    IF r.status = 200 THEN Page("search.html", "", r.body, r.body.query)
    ELSE Page("search.html", "API Error", NoBody, w.input)

\* What each route returns for the Data Service's response r.
OnResponse(w, r) ==
    IF w.flow = "index"
    THEN IF r.status = 200 THEN Page("index.html", "", r.body, Null)
         ELSE IF r.status = 404
              THEN Page("index.html", "Casting not found", NoBody, Null)
         ELSE Page("index.html", ApiErrorText(r), NoBody, Null)
    ELSE IF w.flow = "browse"
    THEN IF r.status = 200 THEN Page("browse.html", "", r.body, Null)
         ELSE Page("browse.html", "API Error", NoBody, Null)
    ELSE IF w.flow = "search"
    THEN IF w.copy = "root" THEN SearchOnResponseRoot(w, r)
         ELSE SearchOnResponseSrc(w, r)
    ELSE ExportOnResponse(w, r)

\* except requests.exceptions.RequestException
OnRequestException(w) ==
    IF w.flow = "index"
    THEN Page("index.html", "Unable to connect to API", NoBody, Null)
    ELSE IF w.flow = "browse"
    THEN Page("browse.html", "Unable to connect to API", NoBody, Null)
    ELSE IF w.flow = "search"
    \* web_app.py renders the error alone, src/web_app.py with query=query.
    THEN Page("search.html", "Unable to connect to API", NoBody,
              IF w.copy = "root" THEN Null ELSE w.input)
    ELSE PlainText(500, "Error: Unable to fetch data")

\* index, POST: the emptiness test is made on the field as submitted.
IndexRejects(casting) == ~Truthy(casting)

\* index
WebIndex ==
    /\ Quiet
    /\ \/ /\ web' = [WebIdle EXCEPT !.flow = "index", !.pc = "done"]
          /\ webResp' = Page("index.html", "", NoBody, Null)
       \/ \E casting \in FormCastings :
             LET w == [WebIdle EXCEPT !.flow = "index", !.method = "POST",
                                      !.input = casting]
             IN  IF IndexRejects(casting)
                 THEN /\ web' = [w EXCEPT !.pc = "done"]
                      /\ webResp' = Page("index.html",
                                         "Please enter a casting number",
                                         NoBody, Null)
                 ELSE /\ web' = [w EXCEPT !.pc = "call",
                                          !.sent = Strip(casting)]
                      /\ webResp' = NoWebResp
    /\ api' = ApiIdle
    /\ apiResp' = NoResp
    /\ UNCHANGED <<loader, store, openConns>>

\* browse: page = request.args.get('page', 1, type=int); limit = 20
WebBrowse ==
    /\ Quiet
    /\ \E page \in PageInputs :
          web' = [WebIdle EXCEPT !.flow = "browse", !.pc = "call",
                                 !.page = page]
    /\ webResp' = NoWebResp
    /\ api' = ApiIdle
    /\ apiResp' = NoResp
    /\ UNCHANGED <<loader, store, openConns>>

\* search
WebSearch ==
    /\ Quiet
    /\ \/ /\ web' = [WebIdle EXCEPT !.flow = "search", !.pc = "done"]
          /\ webResp' = Page("search.html", "", NoBody, Null)
       \/ \E query \in FormQueries, copy \in {"root", "src"} :
             LET w == [WebIdle EXCEPT !.flow = "search", !.method = "POST",
                                      !.input = query, !.copy = copy]
             IN  IF Truthy(query)
                 THEN /\ web' = [w EXCEPT !.pc = "call", !.sent = query]
                      /\ webResp' = NoWebResp
                 ELSE /\ web' = [w EXCEPT !.pc = "done"]
                      /\ webResp' = Page("search.html", "", NoBody, Null)
    /\ api' = ApiIdle
    /\ apiResp' = NoResp
    /\ UNCHANGED <<loader, store, openConns>>

\* export
WebExport ==
    /\ Quiet
    /\ \E casting \in ExportCastings :
          web' = [WebIdle EXCEPT !.flow = "export", !.pc = "call",
                                 !.input = casting, !.sent = casting]
    /\ webResp' = NoWebResp
    /\ api' = ApiIdle
    /\ apiResp' = NoResp
    /\ UNCHANGED <<loader, store, openConns>>

\* The HTTP request reaches the Data Service: the router picks the handler.
Deliver(w) ==
    IF w.flow \in {"index", "export"}
    THEN IF Routed(WirePath(w.sent))
         THEN Dispatch("web", "lookup", WirePath(w.sent), 0, 0)
         ELSE /\ api' = [ApiIdle EXCEPT !.pc = "done", !.caller = "web"]
              /\ apiResp' = ErrResp(404, "Not Found")
    ELSE IF w.flow = "browse"
    THEN Dispatch("web", "castings", <<>>, w.page, BrowseLimit)
    ELSE Dispatch("web", "search", WireQ(w.sent), 0, 0)

\* requests.get(...): the request is delivered, or the connection fails and
\* RequestException is raised.
WebCall ==
    /\ web.pc = "call"
    /\ \/ /\ web' = [web EXCEPT !.pc = "wait", !.calls = @ + 1]
          /\ Deliver(web)
          /\ UNCHANGED webResp
       \/ /\ web' = [web EXCEPT !.pc = "done", !.calls = @ + 1,
                                !.got = "exception"]
          /\ webResp' = OnRequestException(web)
          /\ UNCHANGED <<api, apiResp>>
    /\ UNCHANGED <<loader, store, openConns>>

\* The response arrives, or the timeout expires first (RequestException).
WebReceive ==
    /\ web.pc = "wait"
    /\ api.pc = "done"
    /\ \/ /\ webResp' = OnResponse(web, apiResp)
          /\ web' = [web EXCEPT !.pc = "done", !.got = "response"]
       \/ /\ webResp' = OnRequestException(web)
          /\ web' = [web EXCEPT !.pc = "done", !.got = "exception"]
    /\ UNCHANGED <<loader, store, api, apiResp, openConns>>

(***************************************************************************)
(* The bulk loader setup_database.                                          *)
(***************************************************************************)
\* The source file: whether its header has the column Comments, and its
\* data rows as csv.DictReader yields them.  A row that is one field short
\* has None for Comments.
CsvRowPool ==
    { Rec(<<"a">>, <<"1", "2">>, <<"A", "b">>, <<"x">>, <<"1">>, <<"2">>, <<"b">>),
      Rec(<<"a">>, <<"1", "4">>, <<"b">>, <<"1">>, <<"x">>, <<"2">>, <<"%">>),
      Rec(<<"A">>, <<"1", "3">>, <<"b">>, <<"X">>, <<"1">>, <<"2">>, Null) }

RECURSIVE SeqsUpTo(_, _)
SeqsUpTo(S, n) ==
    IF n = 0 THEN {<<>>}
    ELSE LET shorter == SeqsUpTo(S, n - 1)
         IN  shorter \cup {Append(q, x) : q \in shorter, x \in S}

CsvFiles ==
    {[hasComments |-> h, rows |-> rs] :
        h \in BOOLEAN, rs \in SeqsUpTo(CsvRowPool, MaxCsvRows)}

\* The tuple bound to the INSERT: row['Comments'] if 'Comments' in row else ''
InsertValues(file, row) ==
    IF file.hasComments THEN row ELSE [row EXCEPT !.comments = <<>>]

\* years, cid, low_power, high_power, main_caps TEXT NOT NULL
NotNullOk(v) ==
    /\ v.years # Null
    /\ v.cid # Null
    /\ v.low_power # Null
    /\ v.high_power # Null
    /\ v.main_caps # Null

InsertOrReplaceMutant(table, v) ==
    IF ~NotNullOk(v) THEN table
    ELSE {r \in table : r.casting # v.casting} \cup {v}

\* INSERT OR IGNORE INTO castings ...: the row is skipped when it breaks the
\* PRIMARY KEY or a NOT NULL constraint.
InsertOrIgnore(table, v) ==
    IF (\E r \in table : r.casting = v.casting) \/ ~NotNullOk(v) THEN table
    ELSE table \cup {v}

\* loader.view is the table as the loader's connection sees it: the store
\* plus its own uncommitted inserts.  loader.runs counts the runs started,
\* loader.finished those that committed; loader.first is the store as the
\* first finished run left it.
LoaderIdle ==
    [pc |-> "idle", file |-> [hasComments |-> TRUE, rows |-> <<>>], pos |-> 0,
     view |-> {}, runs |-> 0, finished |-> 0, first |-> {}]

\* sqlite3.connect; CREATE TABLE IF NOT EXISTS castings; conn.commit()
LoaderStart ==
    /\ loader.pc \in {"idle", "done", "failed"}
    /\ loader.runs < MaxRuns
    /\ loader' = [loader EXCEPT !.pc = "open", !.runs = @ + 1, !.pos = 0,
                                !.view = {}]
    /\ UNCHANGED <<store, api, apiResp, openConns, web, webResp>>

\* with open('data/tesla_castings.csv', 'r'): the file opens, or open raises
\* and the run ends there with nothing inserted.
LoaderOpenFile ==
    /\ loader.pc = "open"
    /\ \/ loader' = [loader EXCEPT !.pc = "rows", !.pos = 1, !.view = store]
       \/ loader' = [loader EXCEPT !.pc = "failed"]
    /\ UNCHANGED <<store, api, apiResp, openConns, web, webResp>>

\* for row in reader: cursor.execute(INSERT OR IGNORE ...), not yet committed.
LoaderInsert ==
    /\ loader.pc = "rows"
    /\ loader.pos <= Len(loader.file.rows)
    /\ loader' =
          [loader EXCEPT
              !.view = InsertOrIgnore(
                           @, InsertValues(loader.file,
                                           loader.file.rows[loader.pos])),
              !.pos = @ + 1]
    /\ UNCHANGED <<store, api, apiResp, openConns, web, webResp>>

\* conn.commit(); conn.close(): the inserts become visible to every reader.
LoaderCommit ==
    /\ loader.pc = "rows"
    /\ loader.pos > Len(loader.file.rows)
    /\ store' = loader.view
    /\ loader' = [loader EXCEPT !.pc = "done", !.finished = @ + 1,
                                !.first = IF loader.finished = 0
                                          THEN loader.view ELSE @]
    /\ UNCHANGED <<api, apiResp, openConns, web, webResp>>

(***************************************************************************)
(* Specifications.                                                          *)
(***************************************************************************)
Init ==
    /\ store \in Stores
    /\ api = ApiIdle
    /\ apiResp = NoResp
    /\ openConns = 0
    /\ web = WebIdle
    /\ webResp = NoWebResp
    /\ loader = LoaderIdle

Handler ==
    \/ Connect
    \/ LookupExecute
    \/ CountExecute
    \/ PageExecute
    \/ SearchExecute
    \/ ExceptClause
    \/ FinallyClause

Next ==
    \/ ClientLookup
    \/ ClientCastings
    \/ ClientSearch
    \/ Handler
    \/ WebIndex
    \/ WebBrowse
    \/ WebSearch
    \/ WebExport
    \/ WebCall
    \/ WebReceive

Spec == Init /\ [][Next]_vars

\* Listings of the numbered stores "01".."MaxTotal", every size from empty.
PagesLimits == {MinLimit, 2, 7, BrowseLimit, 50, MaxLimit}

InitPages ==
    /\ store \in {NumberedStore(n) : n \in 0..MaxTotal}
    /\ api = ApiIdle
    /\ apiResp = NoResp
    /\ openConns = 0
    /\ web = WebIdle
    /\ webResp = NoWebResp
    /\ loader = LoaderIdle

ClientCastingsPages ==
    /\ Quiet
    /\ \E page \in 1..MaxPage, limit \in PagesLimits :
          Dispatch("client", "castings", <<>>, page, limit)
    /\ UNCHANGED <<loader, store, openConns, web, webResp>>

NextPages ==
    \/ ClientCastingsPages
    \/ Connect
    \/ CountExecute
    \/ PageExecute
    \/ ExceptClause
    \/ FinallyClause

SpecPages == InitPages /\ [][NextPages]_vars

\* The loader run up to MaxRuns times on one source file, while listings
\* are served.
LoadStores == {s \in Stores : Cardinality(s) <= 1}

LoadLimits == {MinLimit, 2}

InitLoad ==
    /\ store \in LoadStores
    /\ api = ApiIdle
    /\ apiResp = NoResp
    /\ openConns = 0
    /\ web = WebIdle
    /\ webResp = NoWebResp
    /\ loader \in {[LoaderIdle EXCEPT !.file = f] : f \in CsvFiles}

ClientCastingsLoad ==
    /\ Quiet
    /\ \E page \in 1..MaxLoadPage, limit \in LoadLimits :
          Dispatch("client", "castings", <<>>, page, limit)
    /\ UNCHANGED <<loader, store, openConns, web, webResp>>

NextLoad ==
    \/ LoaderStart
    \/ LoaderOpenFile
    \/ LoaderInsert
    \/ LoaderCommit
    \/ ClientCastingsLoad
    \/ Connect
    \/ CountExecute
    \/ PageExecute
    \/ ExceptClause
    \/ FinallyClause

SpecLoad == InitLoad /\ [][NextLoad]_vars

(***************************************************************************)
(* Properties.                                                              *)
(***************************************************************************)
ApiDone(op) == api.op = op /\ api.pc = "done"

StoredKeys == {r.casting : r \in store}

\* C1: lookup_casting(k) answers 200 with the seven stored fields of the row
\* whose casting is k when the store holds one, and 404 without a body when
\* it holds none; whenever the store access succeeded it answers one of the
\* two.
C1_LookupExact ==
    ApiDone("lookup") =>
        /\ apiResp.status = 200 =>
              /\ apiResp.body \in store
              /\ apiResp.body.casting = api.arg
        /\ apiResp.status = 404 =>
              /\ api.arg \notin StoredKeys
              /\ apiResp.body = NoBody
        /\ ~api.dbError =>
              apiResp.status = IF api.arg \in StoredKeys THEN 200 ELSE 404

\* A lookup found a row with NULL comments in a store that also holds the
\* key differing only in case.
C1_Witness ==
    /\ ApiDone("lookup")
    /\ apiResp.status = 200
    /\ api.arg = <<"A">>
    /\ <<"a">> \in StoredKeys
    /\ apiResp.body.comments = Null

\* The castings lists of pages 1..last of a listing with this limit, in order.
RECURSIVE ConcatPages(_, _, _, _)
ConcatPages(s, limit, p, last) ==
    IF p > last THEN <<>>
    ELSE PageQuery(s, limit, Offset(p, limit))
         \o ConcatPages(s, limit, p + 1, last)

\* rows lists every stored key exactly once, in ascending order of casting.
AllKeysAscending(rows) ==
    /\ Len(rows) = Cardinality(store)
    /\ {rows[i].casting : i \in 1..Len(rows)} = StoredKeys
    /\ \A i \in 1..Len(rows) - 1 : LessText(rows[i].casting, rows[i + 1].casting)

\* C2: a successful listing holds at most limit records, and the pages
\* 1..total_pages of its limit, concatenated, list every stored key once in
\* ascending order, the answered page being its own part of that list.
C2_PagesPartition ==
    (ApiDone("castings") /\ apiResp.status = 200) =>
        LET b == apiResp.body
            all == ConcatPages(store, api.limit, 1, b.total_pages)
            off == (api.page - 1) * api.limit
        IN  /\ Len(b.castings) <= api.limit
            /\ AllKeysAscending(all)
            /\ \A i \in 1..Len(b.castings) :
                  off + i <= Len(all) /\ b.castings[i] = all[off + i]
            /\ (off + Len(b.castings) < Len(all)) =>
                  Len(b.castings) = api.limit

\* The second of at least two pages was answered, and it is not empty.
C2_Witness ==
    /\ ApiDone("castings")
    /\ apiResp.status = 200
    /\ api.page = 2
    /\ apiResp.body.total_pages >= 2
    /\ Len(apiResp.body.castings) >= 1
    /\ Cardinality(store) = MaxRecords

\* tp = ceil(total / limit)
IsCeil(tp, total, limit) == tp * limit >= total /\ (tp - 1) * limit < total

\* C3: total_pages = (total + limit - 1) // limit is ceil(total / limit) for
\* the number of stored records and every limit in [1,100]; 55 records with
\* limit 20 give total_pages 3 and page 3 the 15 records ranked 41 to 55; an
\* empty store gives total_pages 0.
C3_TotalPagesCeil ==
    (ApiDone("castings") /\ apiResp.status = 200) =>
        LET b == apiResp.body
        IN  /\ b.total = Cardinality(store)
            /\ IsCeil(b.total_pages, b.total, api.limit)
            /\ \A limit \in MinLimit..MaxLimit :
                  IsCeil(TotalPages(b.total, limit), b.total, limit)
            /\ (b.total = 0) => (b.total_pages = 0)
            /\ (b.total = 55 /\ api.limit = 20) => (b.total_pages = 3)
            /\ (b.total = 55 /\ api.limit = 20 /\ api.page = 3) =>
                  /\ Len(b.castings) = 15
                  /\ \A i \in 1..15 : b.castings[i].casting = KeyOfRank(40 + i)

\* Page 3 of 55 records listed by 20.
C3_Witness ==
    /\ ApiDone("castings")
    /\ apiResp.status = 200
    /\ apiResp.body.total = 55
    /\ api.limit = 20
    /\ api.page = 3
    /\ Len(apiResp.body.castings) = 15

\* page < 1, limit outside [1,100] on /castings; q missing or empty on /search.
InvalidParameters ==
    \/ api.op = "castings" /\ (api.page < 1 \/ api.limit < 1 \/ api.limit > 100)
    \/ api.op = "search" /\ (api.arg = Null \/ api.arg = <<>>)

\* C4: a request whose parameters fail validation is answered 422, and no
\* connection is opened and no statement executed for it.
C4_InvalidRejected ==
    InvalidParameters =>
        /\ api.pc = "done"
        /\ apiResp.status = 422
        /\ api.connects = 0
        /\ api.queries = 0
        /\ api.conn = "unbound"

\* A listing with limit 101 was rejected.
C4_Witness ==
    /\ api.op = "castings"
    /\ api.limit > 100
    /\ api.page >= 1
    /\ api.pc = "done"
    /\ apiResp.status = 422

\* q occurs in field as a literal substring, up to ASCII case.
ContainsCI(field, q) ==
    /\ field # Null
    /\ \E i \in 0..(Len(field) - Len(q)) :
          \A j \in 1..Len(q) : Lower(field[i + j]) = Lower(q[j])

LiteralMatch(r, q) ==
    \/ ContainsCI(r.casting, q)
    \/ ContainsCI(r.years, q)
    \/ ContainsCI(r.cid, q)
    \/ ContainsCI(r.comments, q)

\* C5: search_castings(q) answers 200 with exactly the records in which q
\* occurs as a literal, case-insensitive substring of casting, years, cid or
\* comments, in ascending order of casting, with query = q and count = the
\* number of results; no match gives an empty list and count 0.
C5_SearchLiteral ==
    (ApiDone("search") /\ ~api.dbError /\ ~InvalidParameters) =>
        /\ apiResp.status = 200
        /\ LET b == apiResp.body
           IN  /\ {b.results[i] : i \in 1..Len(b.results)}
                     = {r \in store : LiteralMatch(r, api.arg)}
               /\ \A i \in 1..Len(b.results) - 1 :
                     LessText(b.results[i].casting, b.results[i + 1].casting)
               /\ b.query = api.arg
               /\ b.count = Len(b.results)

\* C6: every connection a request acquires is released before the request
\* finishes, on every exit path, and the release step itself never fails.
C6_ReleasedAndCloseNeverFails ==
    api.pc = "done" =>
        /\ openConns = 0
        /\ api.conn # "open"
        /\ api.pending # "UnboundLocalError"

\* C7: whenever the store access of a request fails, the request ends with
\* the 500 "Database error" HTTPException and no other exception escapes.
C7_StoreFailureIs500 ==
    (api.pc = "done" /\ api.dbError) =>
        /\ apiResp = ErrResp(500, "Database error")
        /\ apiResp.escaped = "none"

\* C8: no step of either layer changes the store.
C8_StoreUnchanged == [][store' = store]_vars

\* A request of each layer has run to its end over a store with records.
C8_Witness ==
    /\ web.flow = "export"
    /\ web.pc = "done"
    /\ webResp.status = 200
    /\ ApiDone("lookup")
    /\ Cardinality(store) = MaxRecords

\* C9: export answers lookup's 200 with the attachment
\* tesla_casting_<id>.json, lookup's 404 with 404 and a text, and every other
\* failure (another status, a transport failure or timeout) with 500 and a
\* text.
C9_ExportMapping ==
    (web.flow = "export" /\ web.pc = "done") =>
        IF web.got = "exception"
        THEN webResp.status = 500 /\ webResp.template = "text"
        ELSE IF apiResp.status = 200
        THEN /\ webResp.status = 200
             /\ webResp.template = "attachment"
             /\ webResp.filename
                   = <<"tesla_casting_">> \o web.input \o <<".json">>
        ELSE IF apiResp.status = 404
        THEN webResp.status = 404 /\ webResp.template = "text"
        ELSE webResp.status = 500 /\ webResp.template = "text"

\* C10: index trims the submitted identifier and, when the field is
\* missing, empty or only whitespace, shows 'Please enter a casting number'
\* and makes no call to the Data Service.
C10_BlankRejectedLocally ==
    (/\ web.flow = "index"
     /\ web.method = "POST"
     /\ (web.input = Null \/ Strip(web.input) = <<>>)) =>
        /\ web.calls = 0
        /\ web.pc = "done" => webResp.error = "Please enter a casting number"

\* C11: a non-empty query submitted to the search form always ends in the
\* rendered search page, never in an uncaught exception: with the results,
\* the echoed query and the count when the Data Service answers 200, with an
\* error message and the original query on any other status and on a
\* transport failure.
C11_SearchAlwaysRenders ==
    (/\ web.flow = "search"
     /\ web.method = "POST"
     /\ Truthy(web.input)
     /\ web.pc = "done") =>
        /\ webResp.escaped = "none"
        /\ webResp.status = 200
        /\ webResp.template = "search.html"
        /\ IF web.got = "response" /\ apiResp.status = 200
           THEN /\ webResp.error = ""
                /\ webResp.data = apiResp.body
                /\ webResp.query = apiResp.body.query
           ELSE /\ webResp.error # ""
                /\ webResp.query = web.input

\* C12: setup_database is idempotent and insert-if-absent by casting: a
\* second run on the same file leaves the store as the first run left it, no
\* run changes or removes a record the store holds, and no two stored
\* records ever share a casting.
C12_LoaderIdempotent ==
    /\ [](UniqueCasting(store))
    /\ []((loader.pc = "done" /\ loader.finished >= 2) => store = loader.first)
    /\ [][\A r \in store : r \in store']_vars

\* Two runs have finished on a file whose second row repeats the key of its
\* first with other field values, and which added a record to the store.
C12_Witness ==
    /\ loader.pc = "done"
    /\ loader.finished = 2
    /\ Len(loader.file.rows) = 2
    /\ loader.file.rows[1].casting = loader.file.rows[2].casting
    /\ loader.file.rows[1] # loader.file.rows[2]
    /\ InsertValues(loader.file, loader.file.rows[1]) \in store
    /\ Cardinality(store) = 2

\* C13: the Presentation Layer forwards user input unchanged: the key that
\* lookup_casting receives is the identifier entered in the lookup form
\* (trimmed) or given in the export path, and the q that search_castings
\* receives is the query entered in the search form, whatever characters
\* the input holds.
C13_InputForwardedUnchanged ==
    (web.pc = "wait" \/ (web.pc = "done" /\ web.got = "response")) =>
        IF web.flow = "index"
        THEN Strip(web.input) # <<>> =>
                (api.op = "lookup" /\ api.arg = Strip(web.input))
        ELSE IF web.flow = "export"
        THEN api.op = "lookup" /\ api.arg = web.input
        ELSE IF web.flow = "search"
        THEN api.op = "search" /\ api.arg = web.input
        ELSE TRUE

Min(a, b) == IF a <= b THEN a ELSE b

Max(a, b) == IF a >= b THEN a ELSE b

\* The number of entries page `page` of `total` records holds.
PageLength(total, page, limit) ==
    Min(limit, Max(0, total - (page - 1) * limit))

\* C14 as stated: every successful get_castings response has
\* len(castings) = min(limit, max(0, total - (page-1)*limit)) for the total
\* of the same response, also when setup_database commits between the
\* COUNT query and the page query.
C14_ListingConsistent ==
    (ApiDone("castings") /\ apiResp.status = 200) =>
        LET b == apiResp.body
        IN  Len(b.castings) = PageLength(b.total, b.page, b.limit)

\* C14 amended: the list a successful get_castings returns holds
\* min(limit, max(0, n - (page-1)*limit)) entries, n being the number of
\* records in the store when the page query runs; the reported total is the
\* number read by the COUNT query and is at most n, so the list has the
\* length the reported total gives whenever no commit of setup_database
\* falls between the two queries.
C14_ListingMatchesPageQuery ==
    [][(api.op = "castings" /\ api.pc = "page" /\ api'.pc = "finally") =>
          LET b == apiResp'.body
              n == CountQuery(store)
          IN  /\ Len(b.castings) = PageLength(n, b.page, b.limit)
              /\ b.total = api.total
              /\ b.total <= n
              /\ (b.total = n) =>
                    Len(b.castings) = PageLength(b.total, b.page, b.limit)]_vars

\* A listing answered after a loader run has committed, whose two queries
\* read the same two records and whose page holds both.
C14_Witness ==
    /\ ApiDone("castings")
    /\ apiResp.status = 200
    /\ loader.finished >= 1
    /\ loader.first # {}
    /\ apiResp.body.total = 2
    /\ CountQuery(store) = 2
    /\ Len(apiResp.body.castings) = 2

====
